---- MODULE Spec2Model ----
(***************************************************************************)
(* repo-summarizer: generate_summary walks a directory, builds a ptree     *)
(* tree, serialises the text files and aggregates statistics.              *)
(*                                                                         *)
(* Strings are sequences of one-character strings, so that glob matching,  *)
(* the dot-file test and the extension are computed character by           *)
(* character.  A path is a sequence of components; an absolute path starts *)
(* with the component RootDir.                                             *)
(***************************************************************************)
EXTENDS Integers, Sequences, FiniteSets, TLC

VARIABLES
    pc,               \* position in generate_summary
    input_dir,        \* the path given by the caller
    base_dir,         \* input_dir canonicalised (summarizer.rs:31-33)
    exclude_patterns, \* the pattern list of the caller
    fs,               \* the directory content under the input directory
    outFile,          \* the output artifact on disk
    outFile0,         \* the output artifact before the run
    inputExists,      \* what input_dir.exists() answered
    walker,           \* entries the walker still has to yield
    current,          \* the result the traversal loop handled last
    handled,          \* entries the loop has received as Ok and gone through
    tb,               \* the ptree TreeBuilder
    added_dirs,       \* process_entries' visited set
    file_paths,       \* the accepted-file sequence
    unreadAtDetect,   \* entries whose read failed inside is_binary_file
    faults,           \* number of I/O faults the environment has injected
    countFail,        \* indices of file_paths whose File::open fails in count_lines
    results,          \* the Vec collected from the parallel map
    order,            \* the order in which the workers completed
    reduced,          \* number of results the reduction loop has consumed
    stats,            \* FileStats
    failure           \* why generate_summary returned Err, or "none"

\* what the caller and the disk fix for the run
envVars == <<input_dir, base_dir, exclude_patterns, fs, outFile0, inputExists>>
\* the locals of the traversal
walkVars == <<walker, current, handled, tb, added_dirs, file_paths, unreadAtDetect>>
\* the locals of collect_stats
statVars == <<countFail, results, order, reduced, stats>>

vars == <<pc, outFile, faults, failure, envVars, walkVars, statVars>>

----------------------------------------------------------------------------
(* Bounds of the model *)

MaxPatterns == 2
MaxFaults == 1

----------------------------------------------------------------------------
(* Characters and names *)

Slash == "/"
Dot == "."
RootDir == <<Slash>>

S_r == <<"r">>
S_l == <<"l">>
S_src == <<"s", "r", "c">>
S_lib == <<"l", "i", "b">>
S_mod_rs == <<"m", "o", "d", ".", "r", "s">>
S_a_txt == <<"a", ".", "t", "x", "t">>
S_c_txt == <<"c", ".", "t", "x", "t">>
S_b_bin == <<"b", ".", "b", "i", "n">>
S_hidden == <<".", "h", "i", "d", "d", "e", "n">>
S_x_log == <<"x", ".", "l", "o", "g">>
S_Make == <<"M", "a", "k", "e">>
S_node_modules == <<"n", "o", "d", "e", "_", "m", "o", "d", "u", "l", "e", "s">>
S_pkg == <<"p", "k", "g">>
S_index_js == <<"i", "n", "d", "e", "x", ".", "j", "s">>
S_link == <<"l", "i", "n", "k">>
S_ln == <<"l", "n">>
S_target == <<"/", "t">>
S_arrow == <<" ", "-", ">", " ">>
S_unreadable == <<" ", "-", ">", " ", "[", "u", "n", "r", "e", "a", "d", "a", "b", "l", "e", " ", "l", "i", "n", "k", "]">>

P_node_modules == <<"*", "/">> \o S_node_modules \o <<"/", "*">>
P_log == <<"*", ".", "l", "o", "g">>
P_bad == <<"[">>

Patterns == {P_node_modules, P_log, P_bad}

----------------------------------------------------------------------------
(* std::path *)

IsAbsolute(p) == Len(p) > 0 /\ p[1] = RootDir

RECURSIVE JoinStr(_, _)
JoinStr(p, i) ==
    IF i > Len(p) THEN <<>>
    ELSE IF i = Len(p) THEN p[i]
    ELSE IF p[i] = RootDir THEN p[i] \o JoinStr(p, i + 1)
    ELSE p[i] \o <<Slash>> \o JoinStr(p, i + 1)

\* Path::to_str / to_string_lossy / display
PathStr(p) == JoinStr(p, 1)

\* Path::join: an absolute argument replaces the receiver
Join(base, p) == IF IsAbsolute(p) THEN p ELSE base \o p

IsPrefix(b, p) == Len(b) <= Len(p) /\ SubSeq(p, 1, Len(b)) = b

\* path.strip_prefix(base_dir).unwrap_or(path)
StripPrefixOr(p, b) == IF IsPrefix(b, p) THEN SubSeq(p, Len(b) + 1, Len(p)) ELSE p

\* Path::parent; None is reported as has = FALSE
Parent(p) ==
    IF Len(p) = 0 \/ p = <<RootDir>> THEN [has |-> FALSE, path |-> <<>>]
    ELSE [has |-> TRUE, path |-> SubSeq(p, 1, Len(p) - 1)]

\* path.file_name().unwrap_or_default()
FileName(p) == IF Len(p) = 0 \/ p[Len(p)] = RootDir THEN <<>> ELSE p[Len(p)]

RECURSIVE LastDot(_, _)
LastDot(name, i) ==
    IF i = 0 THEN 0 ELSE IF name[i] = Dot THEN i ELSE LastDot(name, i - 1)

\* Path::extension: the part of the file name after its last dot; none when
\* there is no dot or the only dot is the leading one
Extension(p) ==
    LET name == FileName(p)
        d == LastDot(name, Len(name))
    IN IF d <= 1 THEN <<>> ELSE SubSeq(name, d + 1, Len(name))

----------------------------------------------------------------------------
(* glob::Pattern *)

RECURSIVE FindFrom(_, _, _)
FindFrom(s, c, i) ==
    IF i > Len(s) THEN 0 ELSE IF s[i] = c THEN i ELSE FindFrom(s, c, i + 1)

\* Pattern::new: the token list, or ok = FALSE for a pattern that does not
\* compile (an unclosed bracket).  Two stars in a row (the recursive
\* wildcard) are outside the modelled pattern set and are reported as not
\* compiling.
RECURSIVE PatternNew(_, _, _)
PatternNew(chars, i, tokens) ==
    IF i > Len(chars) THEN [ok |-> TRUE, tokens |-> tokens]
    ELSE IF chars[i] = "?" THEN
        PatternNew(chars, i + 1, Append(tokens, [t |-> "AnyChar"]))
    ELSE IF chars[i] = "*" THEN
        IF i + 1 <= Len(chars) /\ chars[i + 1] = "*"
        THEN [ok |-> FALSE, tokens |-> <<>>]
        ELSE PatternNew(chars, i + 1, Append(tokens, [t |-> "AnySequence"]))
    ELSE IF chars[i] = "[" THEN
        IF i + 2 > Len(chars) \/ FindFrom(chars, "]", i + 2) = 0
        THEN [ok |-> FALSE, tokens |-> <<>>]
        ELSE PatternNew(chars, FindFrom(chars, "]", i + 2) + 1,
                        Append(tokens,
                               [t |-> "AnyWithin",
                                cs |-> {chars[k] : k \in (i + 1)..
                                                    (FindFrom(chars, "]", i + 2) - 1)}]))
    ELSE PatternNew(chars, i + 1, Append(tokens, [t |-> "Char", c |-> chars[i]]))

\* Pattern::matches_from with the default MatchOptions: a star also matches
\* the separator
RECURSIVE MatchesFrom(_, _, _, _)
MatchesFrom(tokens, ti, s, si) ==
    IF ti > Len(tokens) THEN si > Len(s)
    ELSE LET tok == tokens[ti] IN
        IF tok.t = "AnySequence" THEN
            \E k \in si..(Len(s) + 1) : MatchesFrom(tokens, ti + 1, s, k)
        ELSE IF si > Len(s) THEN FALSE
        ELSE IF tok.t = "AnyChar" THEN MatchesFrom(tokens, ti + 1, s, si + 1)
        ELSE IF tok.t = "AnyWithin" THEN
            s[si] \in tok.cs /\ MatchesFrom(tokens, ti + 1, s, si + 1)
        ELSE tok.c = s[si] /\ MatchesFrom(tokens, ti + 1, s, si + 1)

\* glob::Pattern::new(&pattern).map(|p| p.matches(s)).unwrap_or(false)
GlobMatches(pattern, s) ==
    LET p == PatternNew(pattern, 1, <<>>)
    IN p.ok /\ MatchesFrom(p.tokens, 1, s, 1)

----------------------------------------------------------------------------
(* The directory content: entries in the order the walker discovers them,   *)
(* a directory before what it contains.                                     *)

File(rel, nul, sig, lines) ==
    [rel |-> rel, kind |-> "file", nul |-> nul, sig |-> sig, lines |-> lines,
     target |-> <<>>]
Dir(rel) ==
    [rel |-> rel, kind |-> "dir", nul |-> FALSE, sig |-> FALSE, lines |-> 0,
     target |-> <<>>]
Symlink(rel, target) ==
    [rel |-> rel, kind |-> "symlink", nul |-> FALSE, sig |-> FALSE, lines |-> 0,
     target |-> target]

FS_flat ==
    << File(<<S_a_txt>>, FALSE, FALSE, 2),
       File(<<S_b_bin>>, TRUE, FALSE, 1),
       File(<<S_hidden>>, FALSE, FALSE, 1),
       File(<<S_x_log>>, FALSE, FALSE, 1),
       File(<<S_c_txt>>, FALSE, FALSE, 3) >>

FS_nested ==
    << Dir(<<S_src>>),
       Dir(<<S_src, S_lib>>),
       File(<<S_src, S_lib, S_mod_rs>>, FALSE, FALSE, 3),
       Symlink(<<S_src, S_ln>>, S_target),
       Symlink(<<S_link>>, S_target),
       File(<<S_Make>>, FALSE, FALSE, 1) >>

FS_modules ==
    << Dir(<<S_node_modules>>),
       Dir(<<S_node_modules, S_pkg>>),
       File(<<S_node_modules, S_pkg, S_index_js>>, FALSE, FALSE, 2),
       File(<<S_a_txt>>, FALSE, FALSE, 2),
       File(<<S_b_bin>>, FALSE, TRUE, 1) >>

FileSystems == {FS_flat, FS_nested, FS_modules}

\* The forms of the input path: canonical (/r), relative (r), and through a
\* symlinked directory above it (/l/r, with /l a link to /).  Each is paired
\* with what canonicalize() returns for it.
Roots ==
    { [input |-> <<RootDir, S_r>>, base |-> <<RootDir, S_r>>],
      [input |-> <<S_r>>, base |-> <<RootDir, S_r>>],
      [input |-> <<RootDir, S_l, S_r>>, base |-> <<RootDir, S_r>>] }

PatternLists == UNION {[1..n -> Patterns] : n \in 0..MaxPatterns}

\* Entry 0 is the input directory itself (depth 0)
EntryPath(i) == IF i = 0 THEN input_dir ELSE input_dir \o fs[i].rel
EntryKind(i) == IF i = 0 THEN "dir" ELSE fs[i].kind
EntryDepth(i) == IF i = 0 THEN 0 ELSE Len(fs[i].rel)

----------------------------------------------------------------------------
(* ignore::WalkBuilder *)

\* WalkBuilder::new: no filter installed; hidden entries are skipped
WalkBuilderNew == [hidden |-> TRUE, filter |-> [kind |-> "none", pattern |-> <<>>]]

\* WalkBuilder::filter_entry stores the predicate in the builder's one
\* filter slot
filter_entry(builder, f) == [builder EXCEPT !.filter = f]

\* the closure of summarizer.rs:63-69
DotfileRule(name) == ~(Len(name) > 0 /\ name[1] = Dot /\ name # <<Dot>> /\ name # <<Dot, Dot>>)

\* a glob rule applied to the base name instead of the path
GlobRule_fileName(pattern, path) == ~GlobMatches(pattern, FileName(path))

\* the closure of summarizer.rs:74-84
GlobRule(pattern, path) == ~GlobMatches(pattern, PathStr(path))

FilterAccepts(f, path) ==
    IF f.kind = "dot" THEN DotfileRule(FileName(path))
    ELSE IF f.kind = "glob" THEN GlobRule(f.pattern, path)
    ELSE TRUE

RECURSIVE AddPatterns(_, _, _)
AddPatterns(builder, patterns, k) ==
    IF k > Len(patterns) THEN builder
    ELSE AddPatterns(filter_entry(builder, [kind |-> "glob", pattern |-> patterns[k]]),
                     patterns, k + 1)

build_walker(patterns) ==
    AddPatterns(filter_entry(WalkBuilderNew, [kind |-> "dot", pattern |-> <<>>]),
                patterns, 1)

\* ignore's is_hidden
IsHidden(path) == LET name == FileName(path) IN Len(name) > 0 /\ name[1] = Dot

\* Walk::skip_entry: the root is never skipped
skip_entry(builder, i) ==
    /\ EntryDepth(i) # 0
    /\ \/ builder.hidden /\ IsHidden(EntryPath(i))
       \/ ~FilterAccepts(builder.filter, EntryPath(i))

\* an entry is yielded when neither it nor a directory above it is skipped
Yielded(builder, i) ==
    \A j \in 1..Len(fs) : IsPrefix(fs[j].rel, fs[i].rel) => ~skip_entry(builder, j)

RECURSIVE WalkFrom(_, _)
WalkFrom(builder, i) ==
    IF i > Len(fs) THEN <<>>
    ELSE IF Yielded(builder, i) THEN <<i>> \o WalkFrom(builder, i + 1)
    ELSE WalkFrom(builder, i + 1)

Walk(builder) == <<0>> \o WalkFrom(builder, 1)

\* what is left of the walk when entry i cannot be accessed: nothing below it
RECURSIVE DropBelow(_, _)
DropBelow(w, i) ==
    IF w = <<>> THEN <<>>
    ELSE IF i = 0 \/ IsPrefix(fs[i].rel, fs[Head(w)].rel) THEN DropBelow(Tail(w), i)
    ELSE <<Head(w)>> \o DropBelow(Tail(w), i)

----------------------------------------------------------------------------
(* ptree::TreeBuilder: a node is its text and the index of its parent       *)
(* (0 for the root item); open is the chain of children begun and not ended *)

TreeBuilderNew(text) == [text |-> text, nodes |-> <<>>, open |-> <<>>]

begin_child(t, text) ==
    LET parent == IF t.open = <<>> THEN 0 ELSE t.open[Len(t.open)]
    IN [t EXCEPT !.nodes = Append(@, [text |-> text, parent |-> parent]),
                 !.open = Append(@, Len(t.nodes) + 1)]

end_child(t) == [t EXCEPT !.open = SubSeq(@, 1, Len(@) - 1)]

add_empty_child(t, text) == end_child(begin_child(t, text))

\* begin_child(parent); add_empty_child(name); end_child()
AttachUnder(t, parentLabel, name) ==
    end_child(add_empty_child(begin_child(t, parentLabel), name))

----------------------------------------------------------------------------
(* summarizer.rs: tree insertion *)

RECURSIVE AddDirLoop(_, _, _, _, _)
AddDirLoop(dir_path, base, t, added, k) ==
    IF k > Len(dir_path) THEN [tb |-> t, added |-> added]
    ELSE
        LET prev_path == SubSeq(dir_path, 1, k - 1)
            cur == SubSeq(dir_path, 1, k)
            full_current == Join(base, cur)
        IN IF full_current \notin added THEN
               AddDirLoop(dir_path, base,
                          AttachUnder(t,
                                      IF prev_path = <<>> THEN PathStr(base)
                                      ELSE PathStr(prev_path),
                                      dir_path[k]),
                          added \cup {full_current}, k + 1)
           ELSE AddDirLoop(dir_path, base, t, added, k + 1)

add_dir_to_tree(dir_path, base, t, added) ==
    IF Join(base, dir_path) \in added THEN [tb |-> t, added |-> added]
    ELSE AddDirLoop(dir_path, base, t, added, 1)

add_path_to_tree(path, isDir, base, t, added) ==
    LET rel_path == StripPrefixOr(path, base)
    IN IF isDir THEN add_dir_to_tree(rel_path, base, t, added)
       ELSE
           LET parent == Parent(rel_path)
               withParent == parent.has /\ parent.path # <<>>
               r == IF withParent THEN add_dir_to_tree(parent.path, base, t, added)
                    ELSE [tb |-> t, added |-> added]
               parent_path == IF withParent THEN PathStr(parent.path) ELSE PathStr(base)
           IN [tb |-> AttachUnder(r.tb, parent_path, FileName(path)),
               added |-> r.added]

\* a symlink attached under its bare name, like a file
add_symlink_to_tree_noTarget(path, link_target, base, t, added) ==
    add_path_to_tree(path, FALSE, base, t, added)

\* the symlink branch of process_entries
add_symlink_to_tree(path, link_target, base, t, added) ==
    LET rel_path == StripPrefixOr(path, base)
        parent == Parent(rel_path)
        withParent == parent.has /\ parent.path # <<>>
        r == IF withParent THEN add_dir_to_tree(parent.path, base, t, added)
             ELSE [tb |-> t, added |-> added]
        item_name == FileName(path) \o link_target
    IN [tb |-> AttachUnder(r.tb,
                           IF withParent THEN PathStr(parent.path) ELSE PathStr(base),
                           item_name),
        added |-> r.added]

\* a classifier without the scan for NUL bytes
is_binary_file_sigOnly(i, readOk) == [ok |-> TRUE, val |-> readOk /\ fs[i].sig]

\* a classifier that propagates the error of the read
is_binary_file_strict(i, readOk) ==
    [ok |-> readOk, val |-> readOk /\ (fs[i].sig \/ fs[i].nul)]

\* is_binary_file: Result<bool>; a failed read answers Ok(false)
is_binary_file(i, readOk) ==
    [ok |-> TRUE, val |-> readOk /\ (fs[i].sig \/ fs[i].nul)]

----------------------------------------------------------------------------
(* stats.rs *)

EmptyMap == [e \in {} |-> 0]

\* *map.entry(k).or_insert(0) += v
Bump(m, k, v) == IF k \in DOMAIN m THEN [m EXCEPT ![k] = @ + v] ELSE m @@ (k :> v)

FileStatsDefault ==
    [total_files |-> 0, total_directories |-> 0, total_lines |-> 0,
     extension_counts |-> EmptyMap, extension_lines |-> EmptyMap]

\* the entry a path of file_paths was pushed for
EntryOf(path) == CHOOSE i \in 1..Len(fs) : EntryPath(i) = path

\* count_lines: Err when File::open fails, else the number of lines read
count_lines(paths, i, failing) ==
    IF i \in failing THEN [st |-> "err", ext |-> <<>>, lines |-> 0]
    ELSE [st |-> "ok", ext |-> <<>>, lines |-> fs[EntryOf(paths[i])].lines]

\* the closure given to par_iter().map(): (extension, line_count), or the
\* error of count_lines
WorkerResult(paths, i, failing) ==
    LET c == count_lines(paths, i, failing)
    IN IF c.st = "err" THEN c ELSE [c EXCEPT !.ext = Extension(paths[i])]

\* the directories counted by collect_stats: the parents of the accepted files
ParentDirs(paths) ==
    {Parent(paths[i]).path : i \in {k \in 1..Len(paths) : Parent(paths[k]).has}}

\* a reduction that forgets the running total
ReduceOne_dropTotal(st, r) ==
    IF r.st = "ok" THEN
        [st EXCEPT !.extension_counts = Bump(@, r.ext, 1),
                   !.extension_lines = Bump(@, r.ext, r.lines)]
    ELSE st

\* one iteration of the loop over results (stats.rs:60-71)
ReduceOne(st, r) ==
    IF r.st = "ok" THEN
        [st EXCEPT !.extension_counts = Bump(@, r.ext, 1),
                   !.extension_lines = Bump(@, r.ext, r.lines),
                   !.total_lines = @ + r.lines]
    ELSE st

\* the lines of the first k results
RECURSIVE SumLines(_, _)
SumLines(res, k) == IF k = 0 THEN 0 ELSE res[k].lines + SumLines(res, k - 1)

Pending == [st |-> "pending", ext |-> <<>>, lines |-> 0]

----------------------------------------------------------------------------------------------------------------------------------------
(* The run of generate_summary *)

Absent == [exists |-> FALSE, data |-> <<>>, flushed |-> FALSE]
Old == [exists |-> TRUE, data |-> <<[sec |-> "old", path |-> <<>>, ok |-> TRUE]>>,
        flushed |-> TRUE]

Section(name) == [sec |-> name, path |-> <<>>, ok |-> TRUE]

Init ==
    /\ pc = "validate"
    /\ \E root \in Roots : input_dir = root.input /\ base_dir = root.base
    /\ exclude_patterns \in PatternLists
    /\ fs \in FileSystems
    /\ outFile0 \in {Absent, Old}
    /\ outFile = outFile0
    /\ inputExists \in BOOLEAN
    /\ walker = <<>>
    /\ current = [res |-> "none", id |-> 0]
    /\ handled = {}
    /\ tb = TreeBuilderNew(<<>>)
    /\ added_dirs = {}
    /\ file_paths = <<>>
    /\ unreadAtDetect = {}
    /\ faults = 0
    /\ countFail = {}
    /\ results = <<>>
    /\ order = <<>>
    /\ reduced = 0
    /\ stats = FileStatsDefault
    /\ failure = "none"

\* the existence check placed after File::create
Validate_afterCreate ==
    /\ pc = "validate"
    /\ IF inputExists
       THEN pc' = "create" /\ failure' = failure /\ outFile' = outFile
       ELSE /\ pc' = "error"
            /\ failure' = "input"
            /\ outFile' = [exists |-> TRUE, data |-> <<>>, flushed |-> FALSE]
    /\ UNCHANGED <<faults, envVars, walkVars, statVars>>

\* summarizer.rs:20-22
Validate ==
    /\ pc = "validate"
    /\ IF inputExists THEN pc' = "create" /\ failure' = failure
       ELSE pc' = "error" /\ failure' = "input"
    /\ UNCHANGED <<outFile, faults, envVars, walkVars, statVars>>

\* summarizer.rs:25-26
CreateOutput ==
    /\ pc = "create"
    /\ \E created \in BOOLEAN :
          IF created
          THEN /\ outFile' = [exists |-> TRUE, data |-> <<>>, flushed |-> FALSE]
               /\ pc' = "build"
               /\ failure' = failure
          ELSE /\ outFile' = outFile
               /\ pc' = "error"
               /\ failure' = "create"
    /\ UNCHANGED <<faults, envVars, walkVars, statVars>>

\* summarizer.rs:29-36 and the head of process_entries (98-99)
BuildWalker ==
    /\ pc = "build"
    /\ tb' = TreeBuilderNew(PathStr(input_dir))
    /\ file_paths' = <<>>
    /\ walker' = Walk(build_walker(exclude_patterns))
    /\ added_dirs' = {base_dir}
    /\ pc' = "walk"
    /\ UNCHANGED <<current, handled, unreadAtDetect>>
    /\ UNCHANGED <<outFile, faults, failure, envVars, statVars>>

\* one iteration of the loop of process_entries (summarizer.rs:102-162)
ProcessEntry ==
    /\ pc = "walk"
    /\ walker # <<>>
    /\ LET i == Head(walker)
           path == EntryPath(i)
       IN \/ \* the walker yields Err for this entry (103-109)
             /\ faults < MaxFaults
             /\ faults' = faults + 1
             /\ walker' = DropBelow(Tail(walker), i)
             /\ current' = [res |-> "err", id |-> i]
             /\ UNCHANGED <<handled, tb, added_dirs, file_paths, unreadAtDetect,
                            pc, failure>>
          \/ \* the root directory itself (114-116)
             /\ path = base_dir
             /\ walker' = Tail(walker)
             /\ current' = [res |-> "entry", id |-> i]
             /\ handled' = handled \cup {i}
             /\ UNCHANGED <<tb, added_dirs, file_paths, unreadAtDetect, faults,
                            pc, failure>>
          \/ \* a regular file (119-125)
             /\ path # base_dir
             /\ EntryKind(i) = "file"
             /\ \E readOk \in BOOLEAN :
                   /\ ~readOk => faults < MaxFaults
                   /\ faults' = IF readOk THEN faults ELSE faults + 1
                   /\ unreadAtDetect' = IF readOk THEN unreadAtDetect
                                        ELSE unreadAtDetect \cup {i}
                   /\ LET binary == is_binary_file(i, readOk)
                      IN IF ~binary.ok
                         THEN \* the ? of line 121
                              /\ pc' = "error"
                              /\ failure' = "detect"
                              /\ UNCHANGED <<tb, added_dirs, file_paths>>
                         ELSE /\ UNCHANGED <<pc, failure>>
                              /\ IF binary.val
                                 THEN UNCHANGED <<tb, added_dirs, file_paths>>
                                 ELSE LET r == add_path_to_tree(path, FALSE, base_dir,
                                                                tb, added_dirs)
                                      IN /\ tb' = r.tb
                                         /\ added_dirs' = r.added
                                         /\ file_paths' = Append(file_paths, path)
             /\ walker' = Tail(walker)
             /\ current' = [res |-> "entry", id |-> i]
             /\ handled' = handled \cup {i}
          \/ \* a directory (126-128)
             /\ path # base_dir
             /\ EntryKind(i) = "dir"
             /\ LET r == add_path_to_tree(path, TRUE, base_dir, tb, added_dirs)
                IN tb' = r.tb /\ added_dirs' = r.added
             /\ walker' = Tail(walker)
             /\ current' = [res |-> "entry", id |-> i]
             /\ handled' = handled \cup {i}
             /\ UNCHANGED <<file_paths, unreadAtDetect, faults, pc, failure>>
          \/ \* a symlink (129-161)
             /\ path # base_dir
             /\ EntryKind(i) = "symlink"
             /\ \E linkOk \in BOOLEAN :
                   /\ ~linkOk => faults < MaxFaults
                   /\ faults' = IF linkOk THEN faults ELSE faults + 1
                   /\ LET link_target == IF linkOk THEN S_arrow \o fs[i].target
                                         ELSE S_unreadable
                          r == add_symlink_to_tree(path, link_target, base_dir, tb,
                                                   added_dirs)
                      IN tb' = r.tb /\ added_dirs' = r.added
             /\ walker' = Tail(walker)
             /\ current' = [res |-> "entry", id |-> i]
             /\ handled' = handled \cup {i}
             /\ UNCHANGED <<file_paths, unreadAtDetect, pc, failure>>
    /\ UNCHANGED <<outFile, envVars, statVars>>

\* summarizer.rs:40-44; a failed write is fatal
WriteTree ==
    /\ pc = "walk"
    /\ walker = <<>>
    /\ \E written \in BOOLEAN :
          IF written
          THEN /\ outFile' = [outFile EXCEPT !.data = Append(@, Section("tree"))]
               /\ pc' = "contents"
               /\ failure' = failure
          ELSE /\ outFile' = outFile
               /\ pc' = "error"
               /\ failure' = "write"
    /\ UNCHANGED <<faults, envVars, walkVars, statVars>>

\* the blocks process_file_contents writes: one per accepted file, with the
\* error line in place of the content when read_to_string fails
RECURSIVE Blocks(_, _, _)
Blocks(paths, unread, k) ==
    IF k > Len(paths) THEN <<>>
    ELSE <<[sec |-> "file", path |-> paths[k], ok |-> k \notin unread]>>
         \o Blocks(paths, unread, k + 1)

\* summarizer.rs:47 (process_file_contents, 251-276)
ProcessFileContents ==
    /\ pc = "contents"
    /\ \E unread \in SUBSET (1..Len(file_paths)), written \in BOOLEAN :
          /\ faults + Cardinality(unread) <= MaxFaults
          /\ IF written
             THEN /\ outFile' = [outFile EXCEPT
                                    !.data = @ \o Blocks(file_paths, unread, 1)]
                  /\ faults' = faults + Cardinality(unread)
                  /\ pc' = "stats"
                  /\ failure' = failure
             ELSE /\ unread = {}
                  /\ outFile' = outFile
                  /\ faults' = faults
                  /\ pc' = "error"
                  /\ failure' = "write"
    /\ UNCHANGED <<envVars, walkVars, statVars>>

\* stats.rs:29-39, and the start of the parallel map: the files that cannot
\* be opened during the stage are fixed by the environment
CollectStatsBegin ==
    /\ pc = "stats"
    /\ \E failing \in SUBSET (1..Len(file_paths)) :
          /\ faults + Cardinality(failing) <= MaxFaults
          /\ faults' = faults + Cardinality(failing)
          /\ countFail' = failing
    /\ stats' = [FileStatsDefault EXCEPT
                    !.total_files = Len(file_paths),
                    !.total_directories = Cardinality(ParentDirs(file_paths))]
    /\ results' = [i \in 1..Len(file_paths) |-> Pending]
    /\ order' = <<>>
    /\ reduced' = 0
    /\ pc' = "map"
    /\ UNCHANGED <<outFile, failure, envVars, walkVars>>

\* a worker that adds its count to a total shared with the other workers
\* and returns that total
Worker_shared(i) ==
    /\ pc = "map"
    /\ results[i].st = "pending"
    /\ LET own == WorkerResult(file_paths, i, countFail)
           total == SumLines(results, Len(results))
       IN results' = [results EXCEPT
                         ![i] = IF own.st = "ok"
                                THEN [own EXCEPT !.lines = @ + total]
                                ELSE own]
    /\ order' = Append(order, i)
    /\ UNCHANGED <<countFail, reduced, stats>>
    /\ UNCHANGED <<pc, outFile, faults, failure, envVars, walkVars>>

\* one worker of the parallel map (stats.rs:42-57); collect() keeps the
\* results at the index of their file
Worker(i) ==
    /\ pc = "map"
    /\ results[i].st = "pending"
    /\ results' = [results EXCEPT ![i] = WorkerResult(file_paths, i, countFail)]
    /\ order' = Append(order, i)
    /\ UNCHANGED <<countFail, reduced, stats>>
    /\ UNCHANGED <<pc, outFile, faults, failure, envVars, walkVars>>

MapDone == \A i \in 1..Len(results) : results[i].st # "pending"

\* one iteration of the reduction loop (stats.rs:60-71), after the map
Reduce ==
    /\ pc = "map"
    /\ MapDone
    /\ reduced < Len(results)
    /\ stats' = ReduceOne(stats, results[reduced + 1])
    /\ reduced' = reduced + 1
    /\ UNCHANGED <<countFail, results, order>>
    /\ UNCHANGED <<pc, outFile, faults, failure, envVars, walkVars>>

\* summarizer.rs:50-51: collect_stats has returned; write_statistics
WriteStatistics ==
    /\ pc = "map"
    /\ MapDone
    /\ reduced = Len(results)
    /\ \E written \in BOOLEAN :
          IF written
          THEN /\ outFile' = [outFile EXCEPT !.data = Append(@, Section("stats"))]
               /\ pc' = "flush"
               /\ failure' = failure
          ELSE /\ outFile' = outFile
               /\ pc' = "error"
               /\ failure' = "write"
    /\ UNCHANGED <<faults, envVars, walkVars, statVars>>

\* summarizer.rs:53-55
Flush ==
    /\ pc = "flush"
    /\ \E flushed \in BOOLEAN :
          IF flushed
          THEN /\ outFile' = [outFile EXCEPT !.flushed = TRUE]
               /\ pc' = "done"
               /\ failure' = failure
          ELSE /\ outFile' = outFile
               /\ pc' = "error"
               /\ failure' = "write"
    /\ UNCHANGED <<faults, envVars, walkVars, statVars>>

Next ==
    \/ Validate
    \/ CreateOutput
    \/ BuildWalker
    \/ ProcessEntry
    \/ WriteTree
    \/ ProcessFileContents
    \/ CollectStatsBegin
    \/ \E i \in 1..Len(results) : Worker(i)
    \/ Reduce
    \/ WriteStatistics
    \/ Flush

Spec == Init /\ [][Next]_vars

\* The runs the completion property is checked on: the artifact is absent
\* at the start and the patterns are drawn from a malformed one and a valid
\* one.  The run is one thread and a worker pool that runs every task given
\* to it: a step that can be taken is taken.
FairInit ==
    /\ Init
    /\ outFile0 = Absent
    /\ \A k \in 1..Len(exclude_patterns) : exclude_patterns[k] \in {P_bad, P_log}

FairSpec == FairInit /\ [][Next]_vars /\ WF_vars(Next)

----------------------------------------------------------------------------
(* Helpers of the properties *)

\* the errors generate_summary returns: of the existence check, of
\* File::create and of a write to the output
Fatal == {"input", "create", "write"}

Range(seq) == {seq[k] : k \in 1..Len(seq)}

\* number of nodes attached to the tree with the given text
NodeCount(t, text) == Cardinality({k \in 1..Len(t.nodes) : t.nodes[k].text = text})

RECURSIVE SumOver(_, _)
SumOver(m, keys) ==
    IF keys = {} THEN 0
    ELSE LET k == CHOOSE x \in keys : TRUE IN m[k] + SumOver(m, keys \ {k})

SumMap(m) == SumOver(m, DOMAIN m)

\* collect_stats has returned
StatsReturned ==
    \/ pc \in {"flush", "done"}
    \/ pc = "map" /\ MapDone /\ reduced = Len(results)

\* the entry with the given relative path
IdOf(rel) == CHOOSE i \in 1..Len(fs) : fs[i].rel = rel

\* the traversal has started
Walking == pc \notin {"validate", "create", "build"}

\* the file of entry i is in the tree, the accepted-file sequence, the
\* content section or the statistics
Appears(i) ==
    \/ NodeCount(tb, FileName(EntryPath(i))) > 0
    \/ EntryPath(i) \in Range(file_paths)
    \/ \E k \in 1..Len(outFile.data) :
          outFile.data[k].sec = "file" /\ outFile.data[k].path = EntryPath(i)
    \/ StatsReturned /\ Extension(EntryPath(i)) \in DOMAIN stats.extension_counts

\* the statistics a sequential pass over the accepted files produces
RECURSIVE SequentialStats(_, _, _, _)
SequentialStats(paths, failing, k, st) ==
    IF k > Len(paths) THEN st
    ELSE SequentialStats(paths, failing, k + 1,
                         ReduceOne(st, WorkerResult(paths, k, failing)))

----------------------------------------------------------------------------
(* Claims *)

\* C1: the FileStats returned by collect_stats has total_lines equal to the
\* sum of extension_lines, and total_files equal to the sum of
\* extension_counts plus the number of files whose line counting failed.
C1_StatsTotals ==
    StatsReturned =>
        /\ stats.total_lines = SumMap(stats.extension_lines)
        /\ stats.total_files = SumMap(stats.extension_counts) + Cardinality(countFail)

C1_Witness ==
    /\ pc = "done"
    /\ Len(file_paths) >= 3
    /\ Cardinality(countFail) = 1
    /\ stats.total_lines > 0
    /\ Cardinality(DOMAIN stats.extension_counts) >= 2

\* C2 (as claimed): a regular file with a NUL byte among its first 8000
\* bytes is, whatever happens when it is read, in none of the tree, the
\* accepted-file sequence, the content section and the statistics.
C2_NulFileNeverAppears ==
    \A i \in 1..Len(fs) : (fs[i].kind = "file" /\ fs[i].nul) => ~Appears(i)

\* C2 (amended): a regular file whose content the classifier could read and
\* which has a NUL byte among its first 8000 bytes is in none of the tree,
\* the accepted-file sequence, the content section and the statistics.
C2_ReadNulFileNeverAppears ==
    \A i \in 1..Len(fs) :
        (fs[i].kind = "file" /\ fs[i].nul /\ i \notin unreadAtDetect) => ~Appears(i)

C2_Witness ==
    /\ pc = "done"
    /\ \E i \in handled \ {0} :
          fs[i].kind = "file" /\ fs[i].nul /\ i \notin unreadAtDetect
    /\ Len(file_paths) >= 2

\* C3: the tree holds exactly one node per visited directory, and the root
\* label is attached to no node.  Stated for the canonical form of the
\* input path, where the root entry is skipped.
C3_OneNodePerDirectory ==
    input_dir = base_dir =>
        /\ \A d \in added_dirs \ {base_dir} : NodeCount(tb, FileName(d)) = 1
        /\ NodeCount(tb, PathStr(base_dir)) = 0

\* C4 (as claimed): with the single pattern */node_modules/* and a tree that
\* contains node_modules/pkg/index.js, no node named node_modules is ever
\* inserted into the tree.
C4_NoNodeModulesNode ==
    (exclude_patterns = <<P_node_modules>> /\ fs = FS_modules) =>
        NodeCount(tb, S_node_modules) = 0

\* C4 (amended): with the single pattern */node_modules/* the directory
\* entry node_modules itself passes the filter and, once the loop has gone
\* through it, is a node of the tree; what is below it (pkg, index.js) is
\* never yielded, never a node and never an accepted file.
C4_OnlyDescendantsPruned ==
    (exclude_patterns = <<P_node_modules>> /\ fs = FS_modules /\ Walking) =>
        LET nm == IdOf(<<S_node_modules>>)
            below == {IdOf(<<S_node_modules, S_pkg>>),
                      IdOf(<<S_node_modules, S_pkg, S_index_js>>)}
        IN /\ ~skip_entry(build_walker(exclude_patterns), nm)
           /\ nm \in handled => NodeCount(tb, S_node_modules) >= 1
           /\ \A j \in below :
                 /\ skip_entry(build_walker(exclude_patterns), j)
                 /\ j \notin Range(walker)
                 /\ j \notin handled
                 /\ NodeCount(tb, FileName(EntryPath(j))) = 0
                 /\ EntryPath(j) \notin Range(file_paths)

C4_Witness ==
    /\ exclude_patterns = <<P_node_modules>>
    /\ fs = FS_modules
    /\ pc = "done"
    /\ IdOf(<<S_node_modules>>) \in handled
    /\ Len(file_paths) >= 1

\* C5: with one or more user patterns, an entry whose base name starts with
\* a dot or whose path matches any one of the patterns is rejected: it is
\* never yielded by the walker.
C5_EveryRuleRejects ==
    (Walking /\ Len(exclude_patterns) >= 1) =>
        \A i \in 1..Len(fs) :
            (\/ ~DotfileRule(FileName(EntryPath(i)))
             \/ \E k \in 1..Len(exclude_patterns) :
                   ~GlobRule(exclude_patterns[k], EntryPath(i)))
            => (i \notin Range(walker) /\ i \notin handled)

\* C6: when the input directory does not exist the run ends in the error of
\* the existence check, and the output artifact is as it was before the
\* run; no traversal has run and nothing was collected.
C6_MissingInputFailsFirst ==
    (~inputExists /\ pc # "validate") =>
        /\ pc = "error"
        /\ failure = "input"
        /\ outFile = outFile0
        /\ walker = <<>> /\ handled = {} /\ tb.nodes = <<>> /\ file_paths = <<>>

C6_Witness == ~inputExists /\ pc = "error" /\ outFile0 = Old

\* C7: every run ends, and it ends in success unless the input directory is
\* missing, the output cannot be created or a write fails: entry access
\* errors, unreadable files, malformed patterns and unreadable symlink
\* targets never make generate_summary return an error.
C7_NonFatalNeverAborts == <>(pc = "done" \/ (pc = "error" /\ failure \in Fatal))

C7_Witness ==
    /\ pc = "done"
    /\ faults = MaxFaults
    /\ unreadAtDetect # {}
    /\ \E k \in 1..Len(exclude_patterns) : exclude_patterns[k] = P_bad

\* C8: the step of the loop that goes through a symlink entry attaches one
\* leaf labelled "<name> -> <target>" or "<name> -> [unreadable link]" and
\* leaves the accepted-file sequence and the statistics as they were.
C8_SymlinkLeafOnly ==
    [][(/\ pc = "walk"
        /\ walker # <<>>
        /\ EntryKind(Head(walker)) = "symlink"
        /\ current' = [res |-> "entry", id |-> Head(walker)])
       => LET name == FileName(EntryPath(Head(walker)))
              readable == name \o S_arrow \o fs[Head(walker)].target
              unreadable == name \o S_unreadable
          IN /\ file_paths' = file_paths
             /\ stats' = stats
             /\ results' = results
             /\ NodeCount(tb', readable) + NodeCount(tb', unreadable)
                   = NodeCount(tb, readable) + NodeCount(tb, unreadable) + 1
             /\ tb'.nodes[Len(tb'.nodes)].text \in {readable, unreadable}
             /\ tb'.open = <<>>]_vars

C8_Witness ==
    /\ pc = "walk"
    /\ current.res = "entry"
    /\ EntryKind(current.id) = "symlink"
    /\ NodeCount(tb, FileName(EntryPath(current.id)) \o S_unreadable) = 1
    /\ file_paths # <<>>

\* C9: once the loop has gone through the entry of the root directory,
\* whatever the form of the input path, nothing is attached to the tree and
\* nothing is accepted: the root is skipped.
C9_RootSkipped ==
    (pc = "walk" /\ current = [res |-> "entry", id |-> 0]) =>
        /\ tb.nodes = <<>>
        /\ file_paths = <<>>
        /\ added_dirs = {base_dir}

\* C10: whatever the order in which the workers of the parallel map
\* complete, the statistics collect_stats returns are those of a sequential
\* pass over the accepted files.
C10_ScheduleIndependent ==
    StatsReturned =>
        stats = SequentialStats(file_paths, countFail, 1,
                                [FileStatsDefault EXCEPT
                                    !.total_files = Len(file_paths),
                                    !.total_directories =
                                        Cardinality(ParentDirs(file_paths))])

C10_Witness ==
    /\ pc = "done"
    /\ Len(order) >= 3
    /\ order[1] > order[2]
    /\ stats.total_lines > 0

====
